---- MODULE Spec2Model ----
(***************************************************************************)
(* Phone-number lookup backend (utils.py, app.py): the file cache with its *)
(* TTL, the provider adapters, the reputation aggregator and the lookup    *)
(* orchestrator with its single, batch and PDF handlers.                   *)
(*                                                                         *)
(* Python values are records with a "tag" field, so that any two values    *)
(* can be compared: None, {} (a falsy dict), an error or note marker, a    *)
(* provider payload, a composite lookup result.  Strings that the code     *)
(* only searches with `in` are sequences of lower- or mixed-case tokens.   *)
(***************************************************************************)
EXTENDS Integers, Sequences, FiniteSets, TLC

\* ------------------------------------------------------------------ bounds
\* The clock takes the values a + b * CACHE_TTL with a + b <= MaxTicks.
MaxTicks == 2
\* Numbers looked up in one behaviour of the service, over all its requests; a
\* batch or a document holds at most that many.
MaxLookups == 2
\* Largest user_report_count given to aggregate_reputation.
MaxReports == 3
\* Calls of cache_get and cache_set begun by the concurrent threads.
MaxCalls == 3
\* Matches in a text given to extract_numbers_from_text.
MaxMatches == 3

\* ------------------------------------------------------------- python values
NoneV == [tag |-> "None"]
EmptyDict == [tag |-> "dict"]

\* Python truthiness of the values the program tests with `if x:`.
Truthy(v) == v # NoneV /\ v # EmptyDict

ErrorMarker(msg) == [tag |-> "marker", error |-> msg]
NoteMarker(msg) == [tag |-> "marker", note |-> msg]

\* d.get(k) or dflt: a missing key and a None value both give dflt.
GetOr(d, k, dflt) == IF k \in DOMAIN d THEN d[k] ELSE dflt

\* A value read from a score field: a number, or text float() rejects.
NumV(x) == [tag |-> "num", val |-> x]
TextV == [tag |-> "str"]

\* ------------------------------------------------------------------- cache
CACHE_TTL == 7 * 24 * 3600

Times == {a + b * CACHE_TTL : a \in 0..MaxTicks, b \in 0..MaxTicks} \cap 0..(MaxTicks * CACHE_TTL)

\* The cache file: "json" holds a serialized map (key -> [ts, data]); "empty" is
\* the file just opened for writing; "garbled" is a file json.load rejects.
\* len is the length of the text, in characters to the nearest ten.
DataSize(v) ==
    CASE v.tag = "dict" -> 0
      [] v.tag = "marker" -> 2
      [] v.tag = "payload" -> 15
      [] OTHER -> 60

RECURSIVE TextLen(_)
TextLen(d) ==
    IF DOMAIN d = {} THEN 0
    ELSE LET k == CHOOSE x \in DOMAIN d : TRUE
         IN 5 + DataSize(d[k].data) + TextLen([x \in DOMAIN d \ {k} |-> d[x]])

JsonFile(d) == [kind |-> "json", map |-> d, len |-> TextLen(d)]
EmptyMap == [k \in {} |-> NoneV]
TruncatedFile == [kind |-> "empty", map |-> EmptyMap, len |-> 0]
GarbledFile(n) == [kind |-> "garbled", map |-> EmptyMap, len |-> n]

\* _load_cache: the map of a readable, well-formed file; {} on any exception.
LoadCache(f, canRead) == IF canRead /\ f.kind = "json" THEN f.map ELSE EmptyMap

\* d without key k (d.pop(k, None)).
MapPop(d, k) == [x \in DOMAIN d \ {k} |-> d[x]]

\* d with d[k] = rec.
MapPut(d, k, rec) == [x \in DOMAIN d \cup {k} |-> IF x = k THEN rec ELSE d[x]]

CacheRecord(t, data) == [ts |-> t, data |-> data]

\* cache_get line 61: the record is stale.
ExpiredAtTTL(rec, t) == t - rec.ts >= CACHE_TTL
Expired(rec, t) == t - rec.ts > CACHE_TTL

\* cache_get as one call on file f at time t: what it returns, the file it
\* leaves, whether it wrote, whether _save_cache raised.
CacheGet(f, key, t, canRead, canWrite) ==
    LET d == LoadCache(f, canRead) IN
    IF key \notin DOMAIN d
    THEN [ret |-> NoneV, file |-> f, wrote |-> FALSE, raised |-> FALSE]
    ELSE IF Expired(d[key], t)
    THEN IF canWrite
         THEN [ret |-> NoneV, file |-> JsonFile(MapPop(d, key)), wrote |-> TRUE, raised |-> FALSE]
         ELSE [ret |-> NoneV, file |-> f, wrote |-> FALSE, raised |-> TRUE]
    ELSE [ret |-> d[key].data, file |-> f, wrote |-> FALSE, raised |-> FALSE]

\* A cache_set that stores nothing.
CacheSetDropped(f, key, data, t, canRead, canWrite) ==
    [file |-> f, wrote |-> FALSE, raised |-> FALSE]

\* cache_set as one call: the file it leaves, whether _save_cache raised.
CacheSet(f, key, data, t, canRead, canWrite) ==
    LET d == LoadCache(f, canRead) IN
    IF canWrite
    THEN [file |-> JsonFile(MapPut(d, key, CacheRecord(t, data))), wrote |-> TRUE, raised |-> FALSE]
    ELSE [file |-> f, wrote |-> FALSE, raised |-> TRUE]

\* -------------------------------------------------------------- aggregator
Max(a, b) == IF a >= b THEN a ELSE b
Min(a, b) == IF a <= b THEN a ELSE b

\* str.lower() on a token.
LowerTok(tok) ==
    CASE tok = "VoIP" -> "voip"
      [] tok = "Mobile" -> "mobile"
      [] OTHER -> tok
Lower(s) == [i \in DOMAIN s |-> LowerTok(s[i])]

\* kw in s, for a string held as its tokens.
Contains(s, kw) == \E i \in DOMAIN s : s[i] = kw

\* s.startswith(p), p being a whole first token of s.
StartsWith(s, p) == Len(s) > 0 /\ s[1] = p

suspicious_carrier_keywords == <<"premium", "scam", "telemarketing", "spam">>

\* An elif chain in which a blank line_type scores nothing.
LineTypeScoreBlankZero(lt) ==
    IF Contains(lt, "premium rate") \/ Contains(lt, "premium_rate") THEN Max(0, 90)
    ELSE IF Contains(lt, "satellite") THEN Max(0, 80)
    ELSE IF Contains(lt, "voip") THEN Max(0, 45)
    ELSE IF Contains(lt, "unknown") THEN Max(0, 30)
    ELSE IF Contains(lt, "mobile") THEN Max(0, 10)
    ELSE IF Contains(lt, "landline") THEN Max(0, 5)
    ELSE 0

\* An elif chain that tests the line-type keywords from the lowest score up.
LineTypeScoreLowestFirst(lt) ==
    IF Contains(lt, "landline") THEN Max(0, 5)
    ELSE IF Contains(lt, "mobile") THEN Max(0, 10)
    ELSE IF Contains(lt, "unknown") \/ lt = <<>> THEN Max(0, 30)
    ELSE IF Contains(lt, "voip") THEN Max(0, 45)
    ELSE IF Contains(lt, "satellite") THEN Max(0, 80)
    ELSE IF Contains(lt, "premium rate") \/ Contains(lt, "premium_rate") THEN Max(0, 90)
    ELSE 0

\* heuristics_score lines 129-140: the elif chain over line_type.
LineTypeScore(lt) ==
    IF Contains(lt, "premium rate") \/ Contains(lt, "premium_rate") THEN Max(0, 90)
    ELSE IF Contains(lt, "satellite") THEN Max(0, 80)
    ELSE IF Contains(lt, "voip") THEN Max(0, 45)
    ELSE IF Contains(lt, "unknown") \/ lt = <<>> THEN Max(0, 30)
    ELSE IF Contains(lt, "mobile") THEN Max(0, 10)
    ELSE IF Contains(lt, "landline") THEN Max(0, 5)
    ELSE 0

\* heuristics_score lines 142-145: the loop over the carrier keywords.
CarrierScore(score, carrier) ==
    IF \E i \in DOMAIN suspicious_carrier_keywords :
           Contains(carrier, suspicious_carrier_keywords[i])
    THEN Max(score, 70)
    ELSE score

\* heuristics_score lines 148-150: the prefix rule.
PrefixScore(score, numverify) ==
    LET intl == GetOr(numverify, "international", <<>>)
        e164 == IF intl # <<>> THEN intl ELSE GetOr(numverify, "e164", <<>>)
    IN IF StartsWith(e164, "+91140") THEN Min(100, score + 30) ELSE score

heuristics_score(numverify) ==
    LET lt == Lower(GetOr(numverify, "line_type", <<>>))
        carrier == Lower(GetOr(numverify, "carrier", <<>>))
    IN PrefixScore(CarrierScore(LineTypeScore(lt), carrier), numverify)

\* A source of the fusion.  score2 is twice the score (tellows scores are
\* multiples of 12.5) and weight10 is ten times the weight.
Source(score2, weight10) == [score2 |-> score2, weight10 |-> weight10]

\* float(x) succeeds.
IsNumeric(v) == v.tag = "num"

\* A fusion that counts a score field float() rejects as the score 0.
SourcesNonNumericAsZero(numverify, fraud, tellows, user_report_count) ==
    LET heur == heuristics_score(numverify)
        hasFraud == "fraud_score" \in DOMAIN fraud
        hasTellows == "score" \in DOMAIN tellows
        hasReports == user_report_count > 0
        names == {"heuristics"}
                 \cup (IF hasFraud THEN {"fraudscore"} ELSE {})
                 \cup (IF hasTellows THEN {"tellows"} ELSE {})
                 \cup (IF hasReports THEN {"user_reports"} ELSE {})
    IN [n \in names |->
           CASE n = "heuristics" -> Source(2 * heur, 7)
             [] n = "fraudscore" ->
                  Source(IF IsNumeric(fraud.fraud_score) THEN 2 * fraud.fraud_score.val ELSE 0, 2)
             [] n = "tellows" ->
                  Source(IF IsNumeric(tellows.score) THEN (tellows.score.val - 1) * 25 ELSE 0, 1)
             [] n = "user_reports" -> Source(2 * Min(90, user_report_count * 30), 3)]

\* aggregate_reputation lines 165-189: the sources present, by name.
Sources(numverify, fraud, tellows, user_report_count) ==
    LET heur == heuristics_score(numverify)
        hasFraud == "fraud_score" \in DOMAIN fraud /\ IsNumeric(fraud.fraud_score)
        hasTellows == "score" \in DOMAIN tellows /\ IsNumeric(tellows.score)
        hasReports == user_report_count > 0
        names == {"heuristics"}
                 \cup (IF hasFraud THEN {"fraudscore"} ELSE {})
                 \cup (IF hasTellows THEN {"tellows"} ELSE {})
                 \cup (IF hasReports THEN {"user_reports"} ELSE {})
    IN [n \in names |->
           CASE n = "heuristics" -> Source(2 * heur, 7)
             [] n = "fraudscore" -> Source(2 * fraud.fraud_score.val, 2)
             [] n = "tellows" -> Source((tellows.score.val - 1) * 25, 1)
             [] n = "user_reports" -> Source(2 * Min(90, user_report_count * 30), 3)]

RECURSIVE SumOver(_, _, _)
\* sum(f(v) for v in sources.values()), f being "w" (weight) or "sw" (score * weight).
SumOver(sources, names, what) ==
    IF names = {} THEN 0
    ELSE LET n == CHOOSE x \in names : TRUE
             term == IF what = "w" THEN sources[n].weight10
                     ELSE sources[n].score2 * sources[n].weight10
         IN term + SumOver(sources, names \ {n}, what)

\* total_weight (times ten), line 192.
TotalWeight10(sources) == SumOver(sources, DOMAIN sources, "w")

\* overall (line 193) is the exact fraction OverallNum / OverallDen.
OverallNum(sources) == SumOver(sources, DOMAIN sources, "sw")
OverallDenAllWeights(sources) == 2 * (7 + 2 + 1 + 3)
OverallDen(sources) == 2 * TotalWeight10(sources)

\* Lines 194-198: the label, from overall before it is rounded.
LabelOf(num, den) ==
    IF num >= 75 * den THEN "spam"
    ELSE IF num >= 40 * den THEN "suspicious"
    ELSE "clean"

\* round(overall, 1) in tenths.  The double nearest to overall lies on either
\* side of a decimal tie, so a tie rounds either way.
RoundTenths(num, den) ==
    LET q == (10 * num) \div den
        r == (10 * num) % den
    IN IF 2 * r < den THEN {q}
       ELSE IF 2 * r > den THEN {q + 1}
       ELSE {q, q + 1}

\* Line 200: the breakdown.
Breakdown(sources) ==
    [n \in DOMAIN sources |-> [score2 |-> sources[n].score2, weight10 |-> sources[n].weight10]]

\* Lines 194-198 again, from the rounded score: what the result's label would
\* be were it computed after rounding.
LabelFor(num, den, tenths) == LabelOf(num, den)

\* aggregate_reputation: the results it can return (one, off a rounding tie).
aggregate_reputation(number, numverify, fraud, twilio, tellows, user_report_count) ==
    LET sources == Sources(numverify, fraud, tellows, user_report_count)
        num == OverallNum(sources)
        den == OverallDen(sources)
    IN {[tag |-> "reputation", score10 |-> s, label |-> LabelFor(num, den, s),
         breakdown |-> Breakdown(sources)] : s \in RoundTenths(num, den)}

\* -------------------------------------------------------- provider adapters
\* What requests.get + raise_for_status + r.json() can do: a parsed body, or
\* one of the exceptions.
HttpFailures == {"timeout", "connection_error", "http_error", "bad_json"}
HttpOk(body) == [kind |-> "ok", body |-> body]
HttpFail(kind) == [kind |-> kind, body |-> NoneV]

\* What a call of a function of the program leaves behind: its return value, the
\* cache file, whether it raised, the outbound requests it sent and the number
\* of times it wrote the cache file.
Outcome(ret, f, raised, http, writes) ==
    [ret |-> ret, file |-> f, raised |-> raised, http |-> http, writes |-> writes]

Writes(r) == IF r.wrote THEN 1 ELSE 0

\* A call_numverify whose try block ends before r.json().
call_numverify_json_uncaught(number, f, t, hasKey, response, canRead, canWrite) ==
    LET key == <<"numverify", number>>
        g == CacheGet(f, key, t, canRead, canWrite)
    IN IF g.raised THEN Outcome(NoneV, g.file, TRUE, {}, Writes(g))
       ELSE IF Truthy(g.ret) THEN Outcome(g.ret, g.file, FALSE, {}, Writes(g))
       ELSE IF ~hasKey
       THEN Outcome(ErrorMarker("NUMVERIFY_KEY not set"), g.file, FALSE, {}, Writes(g))
       ELSE IF response.kind = "bad_json"
       THEN Outcome(NoneV, g.file, TRUE, {"numverify"}, Writes(g))
       ELSE LET data == IF response.kind = "ok" THEN response.body
                        ELSE ErrorMarker(response.kind)
                st == CacheSet(g.file, key, data, t, canRead, canWrite)
            IN Outcome(data, st.file, st.raised, {"numverify"}, Writes(g) + Writes(st))

\* A call_numverify that caches the provider's answers only, not its failures.
call_numverify_errors_uncached(number, f, t, hasKey, response, canRead, canWrite) ==
    LET key == <<"numverify", number>>
        g == CacheGet(f, key, t, canRead, canWrite)
    IN IF g.raised THEN Outcome(NoneV, g.file, TRUE, {}, Writes(g))
       ELSE IF Truthy(g.ret) THEN Outcome(g.ret, g.file, FALSE, {}, Writes(g))
       ELSE IF ~hasKey
       THEN Outcome(ErrorMarker("NUMVERIFY_KEY not set"), g.file, FALSE, {}, Writes(g))
       ELSE IF response.kind # "ok"
       THEN Outcome(ErrorMarker(response.kind), g.file, FALSE, {"numverify"}, Writes(g))
       ELSE LET st == CacheSet(g.file, key, response.body, t, canRead, canWrite)
            IN Outcome(response.body, st.file, st.raised, {"numverify"}, Writes(g) + Writes(st))

\* A call_numverify that tests NUMVERIFY_KEY before it reads the cache.
call_numverify_key_first(number, f, t, hasKey, response, canRead, canWrite) ==
    LET key == <<"numverify", number>>
        g == CacheGet(f, key, t, canRead, canWrite)
    IN IF ~hasKey
       THEN Outcome(ErrorMarker("NUMVERIFY_KEY not set"), f, FALSE, {}, 0)
       ELSE IF g.raised THEN Outcome(NoneV, g.file, TRUE, {}, Writes(g))
       ELSE IF Truthy(g.ret) THEN Outcome(g.ret, g.file, FALSE, {}, Writes(g))
       ELSE LET data == IF response.kind = "ok" THEN response.body
                        ELSE ErrorMarker(response.kind)
                st == CacheSet(g.file, key, data, t, canRead, canWrite)
            IN Outcome(data, st.file, st.raised, {"numverify"}, Writes(g) + Writes(st))

\* call_numverify, lines 74-90.  hasKey is NUMVERIFY_KEY being non-empty and
\* response is what the outbound call does if it is sent.
call_numverify(number, f, t, hasKey, response, canRead, canWrite) ==
    LET key == <<"numverify", number>>
        g == CacheGet(f, key, t, canRead, canWrite)
    IN IF g.raised THEN Outcome(NoneV, g.file, TRUE, {}, Writes(g))
       ELSE IF Truthy(g.ret) THEN Outcome(g.ret, g.file, FALSE, {}, Writes(g))
       ELSE IF ~hasKey
       THEN Outcome(ErrorMarker("NUMVERIFY_KEY not set"), g.file, FALSE, {}, Writes(g))
       ELSE LET data == IF response.kind = "ok" THEN response.body
                        ELSE ErrorMarker(response.kind)
                st == CacheSet(g.file, key, data, t, canRead, canWrite)
            IN Outcome(data, st.file, st.raised, {"numverify"}, Writes(g) + Writes(st))

call_fraudscore(number) == NoteMarker("fraudscore_not_configured")
call_twilio_lookup(number) == NoteMarker("twilio_not_configured")
call_tellows(number) == NoteMarker("tellows_not_configured")

\* geocode_city, lines 106-120.  response is what the outbound call does if it
\* is sent: the first result's geometry, None for no result or an exception.
Coordinates == [tag |-> "coords", lat |-> 28, lng |-> 77]
GeoResponses == {Coordinates, NoneV}
geocode_city(city, country, hasKey, response) ==
    IF ~hasKey \/ city = "" THEN [ret |-> NoneV, http |-> {}]
    ELSE [ret |-> response, http |-> {"opencage"}]

\* ------------------------------------------------------------- orchestrator
\* The composite result of lookup_number, lines 35-45.
Composite(number, numv, fraud, tw, tellows, agg, coords, t) ==
    [tag |-> "composite", number |-> number, numverify |-> numv, fraudscore |-> fraud,
     twilio |-> tw, tellows |-> tellows, user_reports_count |-> 0, reputation |-> agg,
     coordinates |-> coords, last_lookup_ts |-> t]

\* ------------------------------------------------------------- extraction
\* A text is the sequence of the matches PhoneNumberMatcher finds in it; a
\* match has its raw substring, its E.164 form, and whether format_number
\* returns (ok) or raises.
Match(raw, e164, ok) == [raw |-> raw, e164 |-> e164, ok |-> ok]

\* A deduplication that keeps the last occurrence of each string.
DedupKeepLast(results, seen) ==
    LET last == {i \in DOMAIN results : \A j \in DOMAIN results : j > i => results[j] # results[i]}
        nth[k \in 0..Len(results)] ==
            IF k = 0 THEN 0 ELSE CHOOSE i \in last : i > nth[k - 1] /\ \A j \in last : j > nth[k - 1] => i <= j
    IN [k \in 1..Cardinality(last) |-> results[nth[k]]]

RECURSIVE Dedup(_, _)
\* Lines 249-255: the first occurrences of results, in order.
Dedup(results, seen) ==
    IF results = <<>> THEN <<>>
    ELSE IF Head(results) \in seen THEN Dedup(Tail(results), seen)
    ELSE <<Head(results)>> \o Dedup(Tail(results), seen \cup {Head(results)})

\* An extraction that drops the matches format_number fails on.
extract_numbers_drop_failed(text) ==
    LET kept == SelectSeq(text, LAMBDA m : m.ok)
        results == [i \in DOMAIN kept |-> kept[i].e164]
    IN IF text = <<>> THEN <<>> ELSE Dedup(results, {})

\* extract_numbers_from_text, lines 234-255.
extract_numbers_from_text(text) ==
    LET results == [i \in DOMAIN text |-> IF text[i].ok THEN text[i].e164 ELSE text[i].raw]
    IN IF text = <<>> THEN <<>> ELSE Dedup(results, {})

RECURSIVE JoinPagesStopAtFailure(_)
\* A page loop that ends at the first page whose extract_text() raises.
JoinPagesStopAtFailure(pages) ==
    IF pages = <<>> \/ ~Head(pages).ok THEN <<>>
    ELSE Head(pages).text \o JoinPagesStopAtFailure(Tail(pages))

RECURSIVE JoinPages(_)
\* Lines 263-270: the text of the pages whose extract_text() returns.
JoinPages(pages) ==
    IF pages = <<>> THEN <<>>
    ELSE (IF Head(pages).ok THEN Head(pages).text ELSE <<>>) \o JoinPages(Tail(pages))

\* extract_numbers_from_pdf, lines 257-275.  A document PdfReader rejects is
\* not parsable.
extract_numbers_from_pdf(doc) ==
    IF ~doc.parsable THEN <<>> ELSE extract_numbers_from_text(JoinPages(doc.pages))

\* ------------------------------------------------------------------- state
VARIABLES
    now,           \* time.time(), in seconds from the start
    file,          \* cache.json
    canRead,       \* cache.json can be opened for reading
    canWrite,      \* cache.json can be opened for writing
    numverifyKey,  \* NUMVERIFY_KEY is set in the environment
    opencageKey,   \* OPENCAGE_KEY is set in the environment
    dbUp,          \* MONGO_URI is set and the store answers
    db,            \* db.lookups: per number, the snapshots pushed to its history
    pc,            \* where the request being served stands ("idle": none)
    req,           \* the request being served: its kind, the numbers left, the results
    loc,           \* the locals of the lookup_number call in progress
    trace,         \* the calls lookup_number has made since it was entered
    response,      \* the last response sent
    served,        \* numbers accepted for lookup so far
    composite,     \* per number, the record the last composite cache_set stored
    agg_args,      \* the arguments of the aggregate_reputation call under study
    agg_result,    \* what it returned, None before the call
    lastSet,       \* per key, the record the last direct cache_set call stored
    lastGet,       \* the last direct cache_get call: key, time, return value
    purged,        \* the keys a direct cache_get found stale, until set again
    threads,       \* per thread, where it is in its cache_get or cache_set
    calls,         \* the cache calls the threads have begun, in order
    ext_in,        \* the text or document given to the extraction under study
    ext_out        \* what its successive runs returned

cacheVars == <<now, file, canRead, canWrite>>
envVars == <<numverifyKey, opencageKey, dbUp>>
svcVars == <<db, pc, req, loc, trace, response, served, composite>>
aggVars == <<agg_args, agg_result>>
callVars == <<lastSet, lastGet, purged>>
concVars == <<threads, calls>>
extVars == <<ext_in, ext_out>>
studyVars == <<aggVars, callVars, concVars, extVars>>
vars == <<cacheVars, envVars, svcVars, studyVars>>

Numbers == {"+911401234567", "+14155550101"}

AbsentFile == [kind |-> "absent", map |-> EmptyMap, len |-> 0]

NoReq == [kind |-> "none", todo |-> <<>>, results |-> <<>>, numbers |-> <<>>]
NoResponse == [status |-> 0, kind |-> "none"]
BlankLoc ==
    [number |-> "", numv |-> NoneV, fraud |-> NoneV, tw |-> NoneV, tellows |-> NoneV,
     agg |-> NoneV, coords |-> NoneV, ret |-> NoneV, http |-> {}, httpResult |-> "",
     writes |-> 0, seen |-> NoneV, seenNumv |-> NoneV, checkedAt |-> 0]

NoArgs == [tag |-> "None"]

\* The variables of a part of the program that a specification leaves alone.
CacheAtStart == now = 0 /\ file = AbsentFile /\ canRead = TRUE /\ canWrite = TRUE
ServiceAtStart ==
    /\ db = [n \in Numbers |-> 0]
    /\ pc = "idle" /\ req = NoReq /\ loc = BlankLoc /\ trace = <<>>
    /\ response = NoResponse /\ served = 0
    /\ composite = [n \in Numbers |-> NoneV]
AggAtStart == agg_args = NoArgs /\ agg_result = NoneV

CacheKeys == {<<"numverify", "+14155550101">>, <<"fullint", "+14155550101">>}
NoGet == [key |-> <<>>, at |-> 0, ret |-> NoneV, set |-> NoneV]
Threads == {"t1", "t2"}
IdleThread == [pc |-> "idle", op |-> "none", key |-> <<>>, d |-> EmptyMap, rec |-> NoneV]
CallsAtStart ==
    /\ lastSet = [k \in CacheKeys |-> NoneV] /\ lastGet = NoGet /\ purged = {}
    /\ threads = [t \in Threads |-> IdleThread] /\ calls = <<>>
NoDoc == [parsable |-> FALSE, pages |-> <<>>]
NoInput == [kind |-> "none", text |-> <<>>, doc |-> NoDoc]
ExtAtStart == ext_in = NoInput /\ ext_out = <<>>

\* --------------------------------------------- aggregate_reputation, called
Payload(lt, carrier, intl, location) ==
    [tag |-> "payload", line_type |-> lt, carrier |-> carrier,
     international |-> intl, location |-> location, country_name |-> "India"]

LineTypes ==
    {<<>>, <<"Mobile">>, <<"landline">>, <<"VoIP">>, <<"satellite">>, <<"premium rate">>,
     <<"premium_rate">>, <<"unknown">>, <<"toll_free">>, <<"mobile", "landline">>,
     <<"landline", "VoIP", "satellite">>}
Carriers == {<<"airtel">>, <<"acme", "telemarketing">>}
Internationals == {<<"+1415", "5550101">>, <<"+91140", "1234567">>}

NumverifyArgs ==
    {Payload(lt, c, i, "Delhi") : lt \in LineTypes, c \in Carriers, i \in Internationals}
    \cup {EmptyDict, ErrorMarker("timeout")}
FraudArgs ==
    {NoteMarker("fraudscore_not_configured"), [tag |-> "payload", fraud_score |-> TextV]}
    \cup {[tag |-> "payload", fraud_score |-> NumV(x)] : x \in {-10, 0, 31, 41, 80, 100, 500}}
TellowsArgs ==
    {NoteMarker("tellows_not_configured"), [tag |-> "payload", score |-> TextV]}
    \cup {[tag |-> "payload", score |-> NumV(x)] : x \in {0, 1, 2, 4, 9, 10}}

AggArgs ==
    [numverify : NumverifyArgs, fraud : FraudArgs, tellows : TellowsArgs,
     user_report_count : 0..MaxReports]

InitAgg ==
    /\ agg_args \in AggArgs
    /\ agg_result = NoneV
    /\ CacheAtStart /\ ServiceAtStart /\ CallsAtStart /\ ExtAtStart
    /\ numverifyKey = FALSE /\ opencageKey = FALSE /\ dbUp = TRUE

\* One call of aggregate_reputation on the chosen arguments.
Aggregate ==
    /\ agg_result = NoneV
    /\ agg_result' \in aggregate_reputation("n", agg_args.numverify, agg_args.fraud,
                           NoteMarker("twilio_not_configured"), agg_args.tellows,
                           agg_args.user_report_count)
    /\ UNCHANGED <<agg_args, callVars, concVars, extVars, cacheVars, envVars, svcVars>>

NextAgg == Aggregate

SpecAgg == InitAgg /\ [][NextAgg]_vars

\* ---------------------------------------------------------------- service
\* The record cache.json holds under key, None when it holds none.
Stored(f, key) == IF f.kind = "json" /\ key \in DOMAIN f.map THEN f.map[key] ELSE NoneV

SeqsUpTo(S, n) == UNION {[1..k -> S] : k \in 0..n}

ServiceBodies ==
    {Payload(<<"Mobile">>, <<"airtel">>, <<"+91140", "1234567">>, "Delhi"), EmptyDict}
HttpResponses == {HttpOk(b) : b \in ServiceBodies} \cup {HttpFail(k) : k \in HttpFailures}

\* The rows of an uploaded CSV: a row is its cells, a cell a number or blank.
Cells == Numbers \cup {"", " "}
Rows == {<<>>} \cup {<<c>> : c \in Cells}
Strip(cell) == IF cell = " " THEN "" ELSE cell

Matches ==
    {Match("+91 140 123 4567", "+911401234567", TRUE),
     Match("+1 415 555 0101", "+14155550101", TRUE),
     Match("+14155550101", "+14155550101", FALSE)}
Pages == {[ok |-> FALSE, text |-> <<>>]} \cup {[ok |-> TRUE, text |-> <<m>>] : m \in Matches}
Docs == [parsable : BOOLEAN, pages : SeqsUpTo(Pages, MaxLookups)]

\* An exception leaves the handler: the framework answers 500.
Abort(where) ==
    /\ response' = [status |-> 500, kind |-> req.kind, raisedIn |-> where,
                    number |-> Head(req.todo), asked |-> Len(req.results) + Len(req.todo)]
    /\ pc' = "idle" /\ req' = NoReq /\ loc' = BlankLoc /\ trace' = <<>>

\* The handler enters its loop over todo, or answers at once when it is empty.
Begin(kind, todo, numbers) ==
    /\ served + Len(todo) <= MaxLookups
    /\ served' = served + Len(todo)
    /\ IF todo = <<>>
       THEN /\ response' = [status |-> 200, kind |-> kind, count |-> 0, numbers |-> numbers,
                            results |-> <<>>, asked |-> 0]
            /\ UNCHANGED <<pc, req>>
       ELSE /\ response' = NoResponse
            /\ pc' = "lookup_number"
            /\ req' = [kind |-> kind, todo |-> todo, results |-> <<>>, numbers |-> numbers]
    /\ UNCHANGED <<cacheVars, envVars, studyVars, db, loc, trace, composite>>

\* An api_lookup that looks up a default number when none is given.
api_lookup_default(phone) ==
    /\ pc = "idle" /\ served < MaxLookups
    /\ Begin("single", <<IF phone = "" THEN "+14155550101" ELSE phone>>, <<>>)

\* api_lookup, lines 50-58, up to its call of lookup_number.  phone = "" is a
\* body without "phone", or with a null or empty one.
api_lookup(phone) ==
    /\ pc = "idle" /\ served < MaxLookups
    /\ IF phone = ""
       THEN /\ response' = [status |-> 400, kind |-> "single", error |-> "phone required"]
            /\ UNCHANGED <<cacheVars, envVars, studyVars, db, pc, req, loc, trace, served, composite>>
       ELSE Begin("single", <<phone>>, <<>>)

\* api_batch_lookup, lines 61-87, up to its first lookup_number: the numbers
\* of a JSON list, or the stripped non-empty first cells of the CSV rows.
CsvNumbers(rows) ==
    LET kept == SelectSeq(rows, LAMBDA row : row # <<>> /\ Strip(row[1]) # "")
    IN [i \in DOMAIN kept |-> Strip(kept[i][1])]
api_batch_lookup_csv(rows) ==
    /\ pc = "idle" /\ served < MaxLookups
    /\ Begin("batch", CsvNumbers(rows), <<>>)
api_batch_lookup_json(numbers) ==
    /\ pc = "idle" /\ served < MaxLookups
    /\ Begin("batch", numbers, <<>>)

\* api_upload_pdf, lines 90-101, up to its first lookup_number.
api_upload_pdf(doc) ==
    /\ pc = "idle" /\ served < MaxLookups
    /\ LET nums == extract_numbers_from_pdf(doc) IN Begin("pdf", nums, nums)

\* lookup_number lines 26-47: the statement that follows each call on a miss.
StepAfterGeocodeFirst(step) ==
    CASE step = "call_numverify" -> "call_placeholders"
      [] step = "call_placeholders" -> "geocode_city"
      [] step = "geocode_city" -> "aggregate_reputation"
      [] step = "aggregate_reputation" -> "cache_set"
      [] step = "cache_set" -> "save_lookup_to_db"
StepAfter(step) ==
    CASE step = "call_numverify" -> "call_placeholders"
      [] step = "call_placeholders" -> "aggregate_reputation"
      [] step = "aggregate_reputation" -> "geocode_city"
      [] step = "geocode_city" -> "cache_set"
      [] step = "cache_set" -> "save_lookup_to_db"

\* lookup_number lines 21-24: the composite cache check.
LookupCacheCheck ==
    /\ pc = "lookup_number"
    /\ LET number == Head(req.todo)
           g == CacheGet(file, <<"fullint", number>>, now, canRead, canWrite)
       IN /\ file' = g.file
          /\ IF g.raised
             THEN Abort("cache_get")
             ELSE /\ trace' = <<"cache_get">>
                  /\ loc' = [BlankLoc EXCEPT !.number = number, !.writes = Writes(g),
                                !.seen = composite[number], !.checkedAt = now,
                                !.ret = IF Truthy(g.ret) THEN g.ret ELSE NoneV]
                  /\ pc' = IF Truthy(g.ret) THEN "save_lookup_to_db" ELSE "call_numverify"
                  /\ UNCHANGED <<req, response>>
    /\ UNCHANGED <<now, canRead, canWrite, envVars, studyVars, db, served, composite>>

\* lookup_number line 26.
CallNumverify ==
    /\ pc = "call_numverify"
    /\ \E resp \in HttpResponses :
         LET r == call_numverify(loc.number, file, now, numverifyKey, resp, canRead, canWrite)
         IN /\ file' = r.file
            /\ IF r.raised
               THEN Abort("call_numverify")
               ELSE /\ trace' = Append(trace, "call_numverify")
                    /\ loc' = [loc EXCEPT !.numv = r.ret, !.http = @ \cup r.http,
                                  !.httpResult = IF r.http = {} THEN "" ELSE resp.kind,
                                  !.seenNumv = Stored(file, <<"numverify", loc.number>>),
                                  !.writes = @ + r.writes]
                    /\ pc' = StepAfter("call_numverify")
                    /\ UNCHANGED <<req, response>>
    /\ UNCHANGED <<now, canRead, canWrite, envVars, studyVars, db, served, composite>>

\* lookup_number lines 27-30.
CallPlaceholders ==
    /\ pc = "call_placeholders"
    /\ loc' = [loc EXCEPT !.fraud = call_fraudscore(loc.number),
                  !.tw = call_twilio_lookup(loc.number),
                  !.tellows = call_tellows(loc.number)]
    /\ trace' = trace \o <<"call_fraudscore", "call_twilio_lookup", "call_tellows">>
    /\ pc' = StepAfter("call_placeholders")
    /\ UNCHANGED <<cacheVars, envVars, studyVars, db, req, response, served, composite>>

\* lookup_number line 32.
CallAggregate ==
    /\ pc = "aggregate_reputation"
    /\ \E agg \in aggregate_reputation(loc.number, loc.numv, loc.fraud, loc.tw, loc.tellows, 0) :
         loc' = [loc EXCEPT !.agg = agg]
    /\ trace' = Append(trace, "aggregate_reputation")
    /\ pc' = StepAfter("aggregate_reputation")
    /\ UNCHANGED <<cacheVars, envVars, studyVars, db, req, response, served, composite>>

\* lookup_number line 33.
CallGeocode ==
    /\ pc = "geocode_city"
    /\ \E resp \in GeoResponses :
         LET g == geocode_city(GetOr(loc.numv, "location", ""),
                               GetOr(loc.numv, "country_name", ""), opencageKey, resp)
         IN loc' = [loc EXCEPT !.coords = g.ret, !.http = @ \cup g.http]
    /\ trace' = Append(trace, "geocode_city")
    /\ pc' = StepAfter("geocode_city")
    /\ UNCHANGED <<cacheVars, envVars, studyVars, db, req, response, served, composite>>

\* lookup_number lines 35-47: the composite, its cache write, the return.
LookupCacheWrite ==
    /\ pc = "cache_set"
    /\ LET result == Composite(loc.number, loc.numv, loc.fraud, loc.tw, loc.tellows,
                               loc.agg, loc.coords, now)
           st == CacheSet(file, <<"fullint", loc.number>>, result, now, canRead, canWrite)
       IN /\ file' = st.file
          /\ IF st.raised
             THEN Abort("cache_set") /\ UNCHANGED composite
             ELSE /\ trace' = Append(trace, "cache_set")
                  /\ loc' = [loc EXCEPT !.ret = result, !.writes = @ + Writes(st)]
                  /\ composite' = [composite EXCEPT ![loc.number] = CacheRecord(now, result)]
                  /\ pc' = StepAfter("cache_set")
                  /\ UNCHANGED <<req, response>>
    /\ UNCHANGED <<now, canRead, canWrite, envVars, studyVars, db, served>>

\* The handlers after lookup_number has returned: save_lookup_to_db (lines
\* 205-212), results.append, and the next number or the response.
SaveAndContinue ==
    /\ pc = "save_lookup_to_db"
    /\ IF ~dbUp
       THEN Abort("save_lookup_to_db") /\ UNCHANGED db
       ELSE LET results == Append(req.results, loc.ret)
                todo == Tail(req.todo)
            IN /\ db' = [db EXCEPT ![loc.number] = @ + 1]
               /\ loc' = BlankLoc /\ trace' = <<>>
               /\ IF todo = <<>>
                  THEN /\ response' = [status |-> 200, kind |-> req.kind, count |-> Len(results),
                                       numbers |-> req.numbers, results |-> results,
                                       asked |-> Len(req.results) + Len(req.todo)]
                       /\ pc' = "idle" /\ req' = NoReq
                  ELSE /\ pc' = "lookup_number"
                       /\ req' = [req EXCEPT !.todo = todo, !.results = results]
                       /\ UNCHANGED response
    /\ UNCHANGED <<cacheVars, envVars, studyVars, served, composite>>

\* Time passes between two requests (a request lasts seconds, the TTL days).
Tick ==
    /\ pc = "idle" /\ served < MaxLookups
    /\ \E t \in Times : t > now /\ now' = t
    /\ UNCHANGED <<file, canRead, canWrite, envVars, studyVars, svcVars>>

\* The process is restarted, with the same environment or another: the request
\* being served is dropped, cache.json and the store stay.
Restart ==
    /\ served < MaxLookups
    /\ \E nk \in BOOLEAN, ok \in BOOLEAN :
         /\ pc = "idle" => <<nk, ok>> # <<numverifyKey, opencageKey>>
         /\ numverifyKey' = nk /\ opencageKey' = ok
    /\ pc' = "idle" /\ req' = NoReq /\ loc' = BlankLoc /\ trace' = <<>>
    /\ response' = NoResponse
    /\ UNCHANGED <<cacheVars, dbUp, studyVars, db, served, composite>>

Init ==
    /\ CacheAtStart /\ ServiceAtStart /\ AggAtStart /\ CallsAtStart /\ ExtAtStart
    /\ numverifyKey \in BOOLEAN /\ opencageKey \in BOOLEAN /\ dbUp = TRUE

Next ==
    \/ \E phone \in Numbers \cup {""} : api_lookup(phone)
    \/ \E rows \in SeqsUpTo(Rows, MaxLookups) : api_batch_lookup_csv(rows)
    \/ \E numbers \in SeqsUpTo(Numbers, MaxLookups) : api_batch_lookup_json(numbers)
    \/ \E doc \in Docs : api_upload_pdf(doc)
    \/ LookupCacheCheck
    \/ CallNumverify
    \/ CallPlaceholders
    \/ CallAggregate
    \/ CallGeocode
    \/ LookupCacheWrite
    \/ SaveAndContinue
    \/ Tick
    \/ Restart

Spec == Init /\ [][Next]_vars

\* ----------------------------------------- the service with no provider key
\* NUMVERIFY_API_KEY is not set, and stays so: the process is never restarted
\* with another environment.
InitUnconfigured == Init /\ ~numverifyKey

NextUnconfigured ==
    \/ \E phone \in Numbers \cup {""} : api_lookup(phone)
    \/ \E rows \in SeqsUpTo(Rows, MaxLookups) : api_batch_lookup_csv(rows)
    \/ \E numbers \in SeqsUpTo(Numbers, MaxLookups) : api_batch_lookup_json(numbers)
    \/ \E doc \in Docs : api_upload_pdf(doc)
    \/ LookupCacheCheck \/ CallNumverify \/ CallPlaceholders \/ CallAggregate
    \/ CallGeocode \/ LookupCacheWrite \/ SaveAndContinue
    \/ Tick

SpecUnconfigured == InitUnconfigured /\ [][NextUnconfigured]_vars

\* ------------------------------------------------- the service under faults
\* cache.json becomes unreadable or unwritable, or readable and writable again.
StorageFault ==
    /\ pc = "idle" /\ served < MaxLookups
    /\ \E r \in BOOLEAN, w \in BOOLEAN :
         /\ <<r, w>> # <<canRead, canWrite>>
         /\ canRead' = r /\ canWrite' = w
    /\ UNCHANGED <<now, file, envVars, svcVars, studyVars>>

\* The text of cache.json is damaged.
CorruptFile ==
    /\ pc = "idle" /\ served < MaxLookups
    /\ file.kind = "json"
    /\ file' = GarbledFile(file.len)
    /\ UNCHANGED <<now, canRead, canWrite, envVars, svcVars, studyVars>>

\* The store stops answering, or answers again.
DbFault ==
    /\ pc = "idle" /\ served < MaxLookups
    /\ dbUp' = ~dbUp
    /\ UNCHANGED <<cacheVars, numverifyKey, opencageKey, svcVars, studyVars>>

\* Enough time passes between two requests for every cached record to go stale.
Expire ==
    /\ pc = "idle" /\ served < MaxLookups
    /\ now + CACHE_TTL + 1 <= MaxTicks * CACHE_TTL
    /\ now' = now + CACHE_TTL + 1
    /\ UNCHANGED <<file, canRead, canWrite, envVars, svcVars, studyVars>>

NextFault ==
    \/ \E phone \in Numbers \cup {""} : api_lookup(phone)
    \/ \E rows \in SeqsUpTo(Rows, MaxLookups) : api_batch_lookup_csv(rows)
    \/ \E numbers \in SeqsUpTo(Numbers, MaxLookups) : api_batch_lookup_json(numbers)
    \/ \E doc \in Docs : api_upload_pdf(doc)
    \/ LookupCacheCheck \/ CallNumverify \/ CallPlaceholders \/ CallAggregate
    \/ CallGeocode \/ LookupCacheWrite \/ SaveAndContinue
    \/ Expire
    \/ StorageFault \/ CorruptFile \/ DbFault

\* Both provider keys are configured: the faults studied are those of storage.
InitFault == Init /\ numverifyKey /\ opencageKey

SpecFault == InitFault /\ [][NextFault]_vars

\* ------------------------------------------- cache_get and cache_set, called
CacheValues ==
    {EmptyDict, ErrorMarker("timeout"),
     Payload(<<"Mobile">>, <<"airtel">>, <<"+1415", "5550101">>, "Delhi")}

\* One call cache_set(key, data).
CallCacheSet(key, data) ==
    /\ LET st == CacheSet(file, key, data, now, canRead, canWrite)
       IN /\ ~st.raised
          /\ file' = st.file
    /\ lastSet' = [lastSet EXCEPT ![key] = CacheRecord(now, data)]
    /\ purged' = purged \ {key}
    /\ UNCHANGED <<now, canRead, canWrite, envVars, svcVars, aggVars, extVars, concVars, lastGet>>

\* One call cache_get(key).
CallCacheGet(key) ==
    /\ LET g == CacheGet(file, key, now, canRead, canWrite)
       IN /\ ~g.raised
          /\ file' = g.file
          /\ lastGet' = [key |-> key, at |-> now, ret |-> g.ret, set |-> lastSet[key]]
    /\ purged' = IF lastSet[key] # NoneV /\ now - lastSet[key].ts > CACHE_TTL
                 THEN purged \cup {key} ELSE purged
    /\ UNCHANGED <<now, canRead, canWrite, envVars, svcVars, aggVars, extVars, concVars, lastSet>>

InitCache ==
    /\ CacheAtStart /\ ServiceAtStart /\ AggAtStart /\ CallsAtStart /\ ExtAtStart
    /\ numverifyKey = FALSE /\ opencageKey = FALSE /\ dbUp = TRUE

NextCache ==
    \/ \E key \in CacheKeys, data \in CacheValues : CallCacheSet(key, data)
    \/ \E key \in CacheKeys : CallCacheGet(key)
    \/ Tick

SpecCache == InitCache /\ [][NextCache]_vars

\* --------------------------------- cache_get and cache_set, called by threads
\* Each thread runs its call in the steps the code takes on cache.json:
\* _load_cache reads the file, open(CACHE_FILE, "w") empties it, json.dump
\* writes the text at the thread's own offset 0 when the file is closed.

\* The file after a thread wrote the text of `mine` from offset 0 over `theirs`:
\* what another thread wrote beyond the end of that text stays.
Overlay(mine, theirs) == IF mine.len >= theirs.len THEN mine ELSE GarbledFile(theirs.len)

\* cache_set(key, data), lines 68-69: load, then d[key] = {ts, data}.
BeginCacheSet(t, key, data) ==
    /\ threads[t].pc = "idle" /\ Len(calls) < MaxCalls
    /\ LET d == LoadCache(file, canRead)
           rec == CacheRecord(now, data)
       IN threads' = [threads EXCEPT ![t] = [pc |-> "open", op |-> "set", key |-> key,
                                             d |-> MapPut(d, key, rec), rec |-> rec]]
    /\ calls' = Append(calls, [op |-> "set", key |-> key, data |-> data])
    /\ UNCHANGED <<cacheVars, envVars, svcVars, aggVars, extVars, callVars>>

\* cache_get(key), lines 57-65 up to its return or to d.pop(key).
BeginCacheGet(t, key) ==
    /\ threads[t].pc = "idle" /\ Len(calls) < MaxCalls
    /\ LET d == LoadCache(file, canRead)
       IN IF key \in DOMAIN d /\ Expired(d[key], now)
          THEN /\ threads' = [threads EXCEPT ![t] = [pc |-> "open", op |-> "get", key |-> key,
                                                     d |-> MapPop(d, key), rec |-> NoneV]]
               /\ UNCHANGED lastGet
          ELSE /\ lastGet' = [key |-> key, at |-> now, set |-> lastSet[key],
                              ret |-> IF key \in DOMAIN d THEN d[key].data ELSE NoneV]
               /\ UNCHANGED threads
    /\ calls' = Append(calls, [op |-> "get", key |-> key, data |-> NoneV])
    /\ UNCHANGED <<cacheVars, envVars, svcVars, aggVars, extVars, lastSet, purged>>

\* _save_cache line 53: open(CACHE_FILE, "w") leaves the file empty.
OpenCacheFile(t) ==
    /\ threads[t].pc = "open"
    /\ file' = TruncatedFile
    /\ threads' = [threads EXCEPT ![t].pc = "write"]
    /\ UNCHANGED <<now, canRead, canWrite, envVars, svcVars, aggVars, extVars, callVars, calls>>

\* _save_cache line 54: the text of d is written and the call returns.
WriteCacheFile(t) ==
    /\ threads[t].pc = "write"
    /\ file' = Overlay(JsonFile(threads[t].d), file)
    /\ threads' = [threads EXCEPT ![t] = IdleThread]
    /\ IF threads[t].op = "set"
       THEN /\ lastSet' = [lastSet EXCEPT ![threads[t].key] = threads[t].rec]
            /\ UNCHANGED lastGet
       ELSE /\ lastGet' = [key |-> threads[t].key, at |-> now, ret |-> NoneV,
                           set |-> lastSet[threads[t].key]]
            /\ UNCHANGED lastSet
    /\ UNCHANGED <<now, canRead, canWrite, envVars, svcVars, aggVars, extVars, purged, calls>>

NextConc ==
    \/ \E t \in Threads, key \in CacheKeys, data \in CacheValues : BeginCacheSet(t, key, data)
    \/ \E t \in Threads, key \in CacheKeys : BeginCacheGet(t, key)
    \/ \E t \in Threads : OpenCacheFile(t)
    \/ \E t \in Threads : WriteCacheFile(t)
    \/ Expire

SpecConc == InitCache /\ [][NextConc]_vars

\* ------------------------------------------------- the extraction, called
Texts == SeqsUpTo(Matches, MaxMatches)

InitExtract ==
    /\ \/ \E text \in Texts : ext_in = [kind |-> "text", text |-> text, doc |-> NoDoc]
       \/ \E doc \in Docs : ext_in = [kind |-> "pdf", text |-> <<>>, doc |-> doc]
    /\ ext_out = <<>>
    /\ CacheAtStart /\ ServiceAtStart /\ AggAtStart /\ CallsAtStart
    /\ numverifyKey = FALSE /\ opencageKey = FALSE /\ dbUp = TRUE

\* One call of extract_numbers_from_text on the text; it can be called twice.
ExtractText ==
    /\ ext_in.kind = "text" /\ Len(ext_out) < 2
    /\ ext_out' = Append(ext_out, extract_numbers_from_text(ext_in.text))
    /\ UNCHANGED <<ext_in, cacheVars, envVars, svcVars, aggVars, callVars, concVars>>

\* One call of extract_numbers_from_pdf on the document.
ExtractPdf ==
    /\ ext_in.kind = "pdf" /\ Len(ext_out) < 1
    /\ ext_out' = Append(ext_out, extract_numbers_from_pdf(ext_in.doc))
    /\ UNCHANGED <<ext_in, cacheVars, envVars, svcVars, aggVars, callVars, concVars>>

NextExtract == ExtractText \/ ExtractPdf

SpecExtract == InitExtract /\ [][NextExtract]_vars

\* ------------------------------------------------------ claims on the cache
\* C1: a cache_get(k) no later than CACHE_TTL after the last cache_set(k, v)
\* returns v; a cache_get(k) later than that returns None and removes k from
\* the persisted map, where k stays absent until it is set again.
C1_CacheTTL ==
    /\ lastGet.set # NoneV =>
           IF lastGet.at - lastGet.set.ts <= CACHE_TTL
           THEN lastGet.ret = lastGet.set.data
           ELSE lastGet.ret = NoneV
    /\ \A k \in purged : Stored(file, k) = NoneV

\* C1 witness: one key was found stale and is gone from the file, and the last
\* cache_get returned the value another key was given exactly one TTL earlier.
C1_Witness ==
    /\ purged # {} /\ lastGet.key \notin purged
    /\ lastGet.set # NoneV /\ lastGet.at - lastGet.set.ts = CACHE_TTL
    /\ lastGet.ret = lastGet.set.data

\* The values cache_set has been called with for key k.
Given(k) == {calls[i].data : i \in {j \in DOMAIN calls : calls[j].op = "set" /\ calls[j].key = k}}
OneKey == \A i \in DOMAIN calls, j \in DOMAIN calls : calls[i].key = calls[j].key
Quiescent == \A t \in Threads : threads[t].pc = "idle"

\* C4: with cache_get and cache_set running concurrently on one key, every
\* cache_get returns absent or a whole value given to an earlier cache_set, and
\* once all calls have finished the file holds, for that key, the record of the
\* last cache_set to write (as long as that record is not stale).
C4_ConcurrentSameKey ==
    OneKey =>
        /\ lastGet.key # <<>> => lastGet.ret \in {NoneV} \cup Given(lastGet.key)
        /\ Quiescent =>
               \A k \in CacheKeys :
                   (lastSet[k] # NoneV /\ ~Expired(lastSet[k], now)) => Stored(file, k) = lastSet[k]

\* ---------------------------------------------------- claims on the service
\* lookup_number has just returned loc.ret to its handler.
Returned == pc = "save_lookup_to_db"
Hit == trace = <<"cache_get">>
MissCalls ==
    <<"cache_get", "call_numverify", "call_fraudscore", "call_twilio_lookup", "call_tellows",
      "aggregate_reputation", "geocode_city", "cache_set">>
MissCallsGeocodeFirst ==
    <<"cache_get", "call_numverify", "call_fraudscore", "call_twilio_lookup", "call_tellows",
      "geocode_city", "aggregate_reputation", "cache_set">>
IsPrefix(s, t) == Len(s) <= Len(t) /\ \A i \in DOMAIN s : s[i] = t[i]

\* C2: a lookup_number that misses the composite cache has stored the composite
\* it returns under the composite key when it returns; a later lookup_number
\* of the number within the TTL of that write returns the stored composite and
\* calls no adapter, no geocoding, no aggregation and writes no cache entry.
C2_CompositeCached ==
    Returned =>
        /\ ~Hit => Stored(file, <<"fullint", loc.number>>) = CacheRecord(now, loc.ret)
        /\ (loc.seen # NoneV /\ loc.checkedAt - loc.seen.ts <= CACHE_TTL) =>
               /\ loc.ret = loc.seen.data
               /\ Hit /\ loc.http = {} /\ loc.writes = 0

\* C2 witness: a lookup returned from the cache a composite stored exactly one
\* TTL earlier.
C2_Witness ==
    /\ Returned /\ Hit /\ loc.seen # NoneV
    /\ loc.checkedAt - loc.seen.ts = CACHE_TTL
    /\ loc.ret = loc.seen.data

\* C5 (as amended): every lookup_number runs the composite cache check and
\* then either returns the hit, or runs, once each and in this order, the four
\* provider adapters, the aggregation, the geocoding and the composite cache
\* write, and returns.
C5_StateMachine ==
    /\ pc \in {"call_numverify", "call_placeholders", "aggregate_reputation", "geocode_city",
               "cache_set"} => IsPrefix(trace, MissCalls) /\ Len(trace) < Len(MissCalls)
    /\ Returned => IF Truthy(loc.seen) /\ loc.checkedAt - loc.seen.ts <= CACHE_TTL
                   THEN Hit ELSE trace = MissCalls

\* C5 witness: a lookup that missed has returned.
C5_Witness == Returned /\ trace = MissCalls

\* C5 as first stated: on a miss the geocoding runs before the aggregation.
C5_Original ==
    Returned => IF Truthy(loc.seen) /\ loc.checkedAt - loc.seen.ts <= CACHE_TTL
                THEN Hit ELSE trace = MissCallsGeocodeFirst

\* C7: whatever the outbound call does (timeout, connection error, non-2xx
\* status, unparsable body), call_numverify returns the error marker with the
\* diagnostic and raises nothing, and the lookup goes on to a composite that
\* holds the marker beside the other sources.
C7_AdapterNeverRaises ==
    /\ ~(response.status = 500 /\ response.raisedIn = "call_numverify")
    /\ loc.httpResult \in HttpFailures => loc.numv = ErrorMarker(loc.httpResult)
    /\ (Returned /\ loc.httpResult \in HttpFailures) =>
           /\ loc.ret.numverify = ErrorMarker(loc.httpResult)
           /\ loc.ret.fraudscore = NoteMarker("fraudscore_not_configured")
           /\ loc.ret.twilio = NoteMarker("twilio_not_configured")
           /\ loc.ret.tellows = NoteMarker("tellows_not_configured")
           /\ loc.ret.reputation # NoneV

\* C7 witness: a lookup whose outbound call could not be parsed has returned.
C7_Witness ==
    Returned /\ loc.httpResult = "bad_json" /\ loc.ret.numverify = ErrorMarker("bad_json")

\* call_numverify has just returned loc.numv to lookup_number.
NumverifyReturned == Len(trace) = 2 /\ trace[2] = "call_numverify"
PlaceholdersReturned == Len(trace) >= 5
\* The record under the numverify key was fresh and truthy when it was called.
NumverifyCached ==
    /\ loc.seenNumv # NoneV
    /\ loc.checkedAt - loc.seenNumv.ts <= CACHE_TTL
    /\ Truthy(loc.seenNumv.data)

\* C8 (as amended): with NUMVERIFY_KEY not set, call_numverify sends no outbound
\* call and writes nothing to the cache; it returns the record cached under
\* numverify:<number> when that record is fresh and truthy, and the marker
\* {error: 'NUMVERIFY_KEY not set'} otherwise.  call_fraudscore,
\* call_twilio_lookup and call_tellows always return their note marker.
C8_Unconfigured ==
    /\ (NumverifyReturned /\ ~numverifyKey) =>
           /\ "numverify" \notin loc.http
           /\ Stored(file, <<"numverify", loc.number>>) \in {NoneV, loc.seenNumv}
           /\ loc.numv = IF NumverifyCached THEN loc.seenNumv.data
                         ELSE ErrorMarker("NUMVERIFY_KEY not set")
    /\ PlaceholdersReturned =>
           /\ loc.fraud = NoteMarker("fraudscore_not_configured")
           /\ loc.tw = NoteMarker("twilio_not_configured")
           /\ loc.tellows = NoteMarker("tellows_not_configured")

\* C8 witness: without the key, call_numverify has returned a cached payload.
C8_Witness ==
    /\ NumverifyReturned /\ ~numverifyKey /\ NumverifyCached
    /\ loc.numv = loc.seenNumv.data /\ loc.numv.tag = "payload"

\* C8 as first stated: without the key call_numverify returns the marker,
\* whatever the cache holds.
C8_Original ==
    /\ (NumverifyReturned /\ ~numverifyKey) =>
           /\ "numverify" \notin loc.http
           /\ loc.numv = ErrorMarker("NUMVERIFY_KEY not set")
    /\ PlaceholdersReturned =>
           /\ loc.fraud = NoteMarker("fraudscore_not_configured")
           /\ loc.tw = NoteMarker("twilio_not_configured")
           /\ loc.tellows = NoteMarker("tellows_not_configured")

\* ---------------------------------------- claims on the service under faults
\* C3: no failure of the cache file at a cache_get or cache_set step makes a
\* lookup raise: lookup_number always returns to its handler.
C3_CacheFailureNeverAborts ==
    ~(response.status = 500 /\ response.raisedIn \in {"cache_get", "call_numverify", "cache_set"})

\* C6: every batch or document request over N numbers is answered with exactly
\* N results and count = N, whatever fails for the individual numbers.
C6_BatchNeverAborts ==
    response.kind \in {"batch", "pdf"} =>
        /\ response.status = 200
        /\ response.count = response.asked
        /\ Len(response.results) = response.asked

\* ------------------------------------------------ claims on the aggregator
\* What the claims say of the call's arguments, stated without the model's
\* operators: which sources are present, and the sums of the weighted mean.
HasFraudArg == "fraud_score" \in DOMAIN agg_args.fraud /\ agg_args.fraud.fraud_score.tag = "num"
HasTellowsArg == "score" \in DOMAIN agg_args.tellows /\ agg_args.tellows.score.tag = "num"
HasReportsArg == agg_args.user_report_count > 0
HeurArg == heuristics_score(agg_args.numverify)

\* Twice the sum of score * weight * 10 over the sources present.
ExpectedNum ==
    7 * 2 * HeurArg
    + (IF HasFraudArg THEN 2 * 2 * agg_args.fraud.fraud_score.val ELSE 0)
    + (IF HasTellowsArg THEN 25 * (agg_args.tellows.score.val - 1) ELSE 0)
    + (IF HasReportsArg THEN 3 * 2 * Min(90, agg_args.user_report_count * 30) ELSE 0)
\* Ten times the sum of the weights of the sources present.
ExpectedWeight ==
    7 + (IF HasFraudArg THEN 2 ELSE 0) + (IF HasTellowsArg THEN 1 ELSE 0)
      + (IF HasReportsArg THEN 3 ELSE 0)

OnlyHeuristics == ~HasFraudArg /\ ~HasTellowsArg /\ ~HasReportsArg
Heur30Fraud80 ==
    /\ HeurArg = 30 /\ HasFraudArg /\ agg_args.fraud.fraud_score.val = 80
    /\ ~HasTellowsArg /\ ~HasReportsArg

\* The returned score is the weighted mean over the sources present, to one
\* decimal: it is within half a tenth of ExpectedNum / (2 * ExpectedWeight).
FusedScoreIsWeightedMean ==
    agg_result # NoneV =>
        LET diff == agg_result.score10 * 2 * ExpectedWeight - 10 * ExpectedNum
        IN /\ diff <= ExpectedWeight
           /\ -diff <= ExpectedWeight
           /\ (OnlyHeuristics => agg_result.score10 = 10 * HeurArg)

\* C9 (as amended): aggregate_reputation returns the weighted mean over exactly
\* the sources present (heuristics 0.7 always; fraudscore 0.2, tellows 0.1
\* rescaled by (raw-1)/8*100, user_reports 0.3 with min(90, count*30) when
\* count > 0), the weights renormalized over the sources present, rounded to one
\* decimal; with heuristics alone the score is the heuristic score exactly, and
\* heuristics=30 with fraud=80 gives 41.1.
C9_FusedScore ==
    /\ FusedScoreIsWeightedMean
    /\ (agg_result # NoneV /\ Heur30Fraud80 => agg_result.score10 = 411)

\* C9 witness: the call on heuristics=30, fraud=80 has returned 41.1.
C9_Witness == agg_result # NoneV /\ Heur30Fraud80 /\ agg_result.score10 = 411

\* C9 as first stated: the same, with heuristics=30 and fraud=80 giving 41.3.
C9_Original ==
    /\ FusedScoreIsWeightedMean
    /\ (agg_result # NoneV /\ Heur30Fraud80 => agg_result.score10 = 413)

\* C10: the label of every returned result is the threshold function of the
\* returned one-decimal score: spam iff score >= 75, suspicious iff
\* 40 <= score < 75, clean otherwise.
C10_LabelFromReturnedScore ==
    agg_result # NoneV =>
        agg_result.label = (IF agg_result.score10 >= 750 THEN "spam"
                            ELSE IF agg_result.score10 >= 400 THEN "suspicious"
                            ELSE "clean")

\* C11: the returned score lies in [0, 100], and so does every per-source
\* score of the breakdown, whatever numeric scores the payloads carry.
C11_ScoresInRange ==
    agg_result # NoneV =>
        /\ agg_result.score10 \in 0..1000
        /\ \A n \in DOMAIN agg_result.breakdown : agg_result.breakdown[n].score2 \in 0..200

\* The line-type table of the heuristic, keyword by keyword, and the highest
\* base score among the keywords the lowered line_type contains.
LineTypeArg == Lower(GetOr(agg_args.numverify, "line_type", <<>>))
CarrierArg == Lower(GetOr(agg_args.numverify, "carrier", <<>>))
BaseScores ==
    {0} \cup {90 : x \in {k \in {"premium rate", "premium_rate"} : Contains(LineTypeArg, k)}}
        \cup {80 : x \in {k \in {"satellite"} : Contains(LineTypeArg, k)}}
        \cup {45 : x \in {k \in {"voip"} : Contains(LineTypeArg, k)}}
        \cup {30 : x \in {k \in {"unknown"} : Contains(LineTypeArg, k) \/ LineTypeArg = <<>>}}
        \cup {10 : x \in {k \in {"mobile"} : Contains(LineTypeArg, k)}}
        \cup {5 : x \in {k \in {"landline"} : Contains(LineTypeArg, k)}}
HighestBase == CHOOSE b \in BaseScores : \A c \in BaseScores : c <= b
SpamCarrier == \E k \in {"premium", "scam", "telemarketing", "spam"} : Contains(CarrierArg, k)
BadPrefix ==
    /\ "international" \in DOMAIN agg_args.numverify
    /\ agg_args.numverify.international[1] = "+91140"
MaxCombined ==
    LET m == IF SpamCarrier /\ HighestBase < 70 THEN 70 ELSE HighestBase
    IN IF BadPrefix THEN (IF m + 30 > 100 THEN 100 ELSE m + 30) ELSE m

\* C12: the heuristic score is the highest base score among the line-type
\* keywords contained in line_type, or 70 for a spam-keyword carrier if that is
\* higher, raised by 30 and capped at 100 for the known-bad prefix; nothing is
\* summed (premium rate with a spam carrier gives 90).
C12_HeuristicsMaxCombine ==
    agg_result # NoneV =>
        /\ agg_result.breakdown["heuristics"].score2 = 2 * MaxCombined
        /\ (Contains(LineTypeArg, "premium rate") /\ SpamCarrier /\ ~BadPrefix)
               => agg_result.breakdown["heuristics"].score2 = 2 * 90

\* C12 witness: a line_type holding several keywords, the highest of them not
\* the first, with a spam-keyword carrier and the bad prefix, has been scored.
C12_Witness ==
    /\ agg_result # NoneV /\ Cardinality(BaseScores) > 3 /\ SpamCarrier /\ BadPrefix
    /\ agg_result.breakdown["heuristics"].score2 = 2 * 100

\* The sources that contribute: heuristics always, the others when present.
Contributing ==
    {"heuristics"} \cup (IF HasFraudArg THEN {"fraudscore"} ELSE {})
                   \cup (IF HasTellowsArg THEN {"tellows"} ELSE {})
                   \cup (IF HasReportsArg THEN {"user_reports"} ELSE {})
NonNumericArg ==
    \/ ("fraud_score" \in DOMAIN agg_args.fraud /\ agg_args.fraud.fraud_score = TextV)
    \/ ("score" \in DOMAIN agg_args.tellows /\ agg_args.tellows.score = TextV)

\* C13: the breakdown holds exactly the sources that contributed to the fused
\* score, each with its own score and its weight as configured (0.7, 0.2, 0.1,
\* 0.3); a source whose score field is not numeric is in neither the breakdown
\* nor the fusion, and the call still returns.
C13_BreakdownExact ==
    agg_result # NoneV =>
        LET b == agg_result.breakdown IN
        /\ DOMAIN b = Contributing
        /\ b["heuristics"] = [score2 |-> 2 * HeurArg, weight10 |-> 7]
        /\ HasFraudArg =>
               b["fraudscore"] = [score2 |-> 2 * agg_args.fraud.fraud_score.val, weight10 |-> 2]
        /\ HasTellowsArg =>
               b["tellows"] = [score2 |-> 25 * (agg_args.tellows.score.val - 1), weight10 |-> 1]
        /\ HasReportsArg =>
               b["user_reports"] = [score2 |-> 2 * Min(90, agg_args.user_report_count * 30),
                                    weight10 |-> 3]
        /\ FusedScoreIsWeightedMean

\* C13 witness: a call with a non-numeric fraud_score and a numeric tellows
\* score has returned, the breakdown holding heuristics and tellows only.
C13_Witness ==
    /\ agg_result # NoneV /\ NonNumericArg
    /\ DOMAIN agg_result.breakdown = {"heuristics", "tellows"}

\* ------------------------------------------------ claims on the extraction
\* The string a match stands for in the output: its E.164 form, or its raw
\* substring when format_number fails on it.
Shown(m) == IF m.ok THEN m.e164 ELSE m.raw
\* The place in the text where a string is first shown.
FirstAt(text, str) == CHOOSE i \in DOMAIN text : Shown(text[i]) = str /\ \A j \in 1..(i - 1) : Shown(text[j]) # str
NoDuplicates(out) == \A i \in DOMAIN out, j \in DOMAIN out : out[i] = out[j] => i = j
Range(out) == {out[i] : i \in DOMAIN out}

\* C14: extract_numbers_from_text returns a sequence with no duplicates, in
\* the order in which its strings first occur in the text, and a second run on
\* the same text returns the same sequence.
C14_OrderedDeduplicated ==
    ext_in.kind = "text" =>
        /\ \A r \in DOMAIN ext_out :
               LET out == ext_out[r] IN
               /\ NoDuplicates(out)
               /\ \A i \in DOMAIN out : \E k \in DOMAIN ext_in.text : Shown(ext_in.text[k]) = out[i]
               /\ \A i \in DOMAIN out, j \in DOMAIN out :
                      i < j => FirstAt(ext_in.text, out[i]) < FirstAt(ext_in.text, out[j])
        /\ Len(ext_out) = 2 => ext_out[1] = ext_out[2]

\* C14 witness: a text in which a number occurs again after another one has
\* been extracted twice, to the two numbers in the order of their first
\* occurrence.
C14_Witness ==
    /\ ext_in.kind = "text" /\ Len(ext_out) = 2 /\ Len(ext_in.text) = 3
    /\ Shown(ext_in.text[1]) = Shown(ext_in.text[3])
    /\ ext_out[2] = <<Shown(ext_in.text[1]), Shown(ext_in.text[2])>>
    /\ Len(ext_out[2]) = 2 /\ ext_out[2][1] # ext_out[2][2]

\* C15: for every match in the text the output holds its E.164 form, or its
\* raw substring when format_number fails on it; no match is dropped and a
\* failure on one match does not stop the extraction of the others.
C15_RecallFavoring ==
    ext_in.kind = "text" =>
        \A r \in DOMAIN ext_out : \A k \in DOMAIN ext_in.text :
            LET m == ext_in.text[k] IN
            IF m.ok THEN m.e164 \in Range(ext_out[r]) ELSE m.raw \in Range(ext_out[r])

\* C15 witness: a text whose first match fails canonicalization and whose
\* second does not has been extracted, to the raw substring and the E.164 form.
C15_Witness ==
    /\ ext_in.kind = "text" /\ Len(ext_out) >= 1 /\ Len(ext_in.text) = 2
    /\ ~ext_in.text[1].ok /\ ext_in.text[2].ok
    /\ ext_out[1] = <<ext_in.text[1].raw, ext_in.text[2].e164>>
    /\ ext_in.text[1].raw # ext_in.text[2].e164

\* The matches on the pages of the document whose text extraction returns.
ReadablePages == {k \in DOMAIN ext_in.doc.pages : ext_in.doc.pages[k].ok}
OnReadablePages ==
    {Shown(ext_in.doc.pages[k].text[i]) : <<k, i>> \in
        {<<k, i>> \in ReadablePages \X (1..MaxMatches) : i \in DOMAIN ext_in.doc.pages[k].text}}

\* C16: extract_numbers_from_pdf always returns: the numbers of every page
\* whose text extraction returns, a failing page being skipped, and the empty
\* list for a document that cannot be parsed.
C16_PdfNeverRaises ==
    (ext_in.kind = "pdf" /\ Len(ext_out) = 1) =>
        IF ext_in.doc.parsable
        THEN Range(ext_out[1]) = OnReadablePages /\ NoDuplicates(ext_out[1])
        ELSE ext_out[1] = <<>>

\* C16 witness: a parsable document whose first page fails and whose second
\* page holds a number has been extracted to that number.
C16_Witness ==
    /\ ext_in.kind = "pdf" /\ Len(ext_out) = 1 /\ ext_in.doc.parsable
    /\ Len(ext_in.doc.pages) = 2 /\ ~ext_in.doc.pages[1].ok /\ ext_in.doc.pages[2].ok
    /\ Len(ext_out[1]) = 1

\* ------------------------------------- claims on the service, second series
\* C17: with no provider configured every lookup_number returns a composite
\* whose four provider slots hold their unconfigured markers, whose coordinates
\* are absent and whose reputation is the heuristic score of a blank payload:
\* 30.0, clean, the breakdown holding heuristics alone with weight 0.7.
C17_NoProviderLookup ==
    Returned =>
        /\ loc.ret.number = loc.number
        /\ loc.ret.numverify = ErrorMarker("NUMVERIFY_KEY not set")
        /\ loc.ret.fraudscore = NoteMarker("fraudscore_not_configured")
        /\ loc.ret.twilio = NoteMarker("twilio_not_configured")
        /\ loc.ret.tellows = NoteMarker("tellows_not_configured")
        /\ loc.ret.coordinates = NoneV
        /\ loc.ret.reputation.score10 = 300
        /\ loc.ret.reputation.label = "clean"
        /\ loc.ret.reputation.breakdown = [n \in {"heuristics"} |-> [score2 |-> 60, weight10 |-> 7]]
        /\ loc.http = {}

\* C17 witness: a lookup of the number with the known-bad prefix has missed the
\* cache and returned the composite with score 30.0.
C17_Witness ==
    /\ Returned /\ ~Hit /\ ~numverifyKey /\ loc.number = "+911401234567"
    /\ loc.ret.reputation.score10 = 300

\* What a rejected request leaves alone.
NoEffect ==
    UNCHANGED <<cacheVars, envVars, studyVars, db, pc, req, loc, trace, served, composite>>

\* C18: a single-lookup request without a phone number is answered 400 with the
\* error 'phone required' and changes nothing else: no provider call, no cache
\* read or write, nothing persisted, no number looked up in its place.
C18_MissingPhoneRejected ==
    [][/\ api_lookup("") => response'.status = 400 /\ response'.error = "phone required" /\ NoEffect
       /\ (response'.status = 400 /\ response' # response) => NoEffect /\ pc = "idle"]_vars

\* C18 witness: a request without a phone number has been rejected after a
\* lookup was served, the cache and the store holding what that lookup left.
C18_Witness ==
    /\ response.status = 400 /\ response.error = "phone required"
    /\ served > 0 /\ file.kind = "json" /\ \E n \in Numbers : db[n] > 0

\* A failure marker of call_numverify, as opposed to the unconfigured marker.
FailureMarkers == {ErrorMarker(k) : k \in HttpFailures}
CachedFailure ==
    /\ NumverifyCached /\ loc.seenNumv.data \in FailureMarkers

\* C19: when the outbound call of call_numverify fails, the error marker is
\* stored under numverify:<number>; a later call_numverify of the number
\* within the TTL returns that marker and sends nothing, whatever the provider
\* would answer; the unconfigured marker is never in the cache.
C19_FailureCached ==
    /\ (NumverifyReturned /\ loc.httpResult \in HttpFailures) =>
           Stored(file, <<"numverify", loc.number>>) = CacheRecord(now, ErrorMarker(loc.httpResult))
    /\ (NumverifyReturned /\ CachedFailure) =>
           /\ loc.numv = loc.seenNumv.data
           /\ "numverify" \notin loc.http
           /\ Stored(file, <<"numverify", loc.number>>) = loc.seenNumv
    /\ \A n \in Numbers :
           Stored(file, <<"numverify", n>>) # NoneV =>
               Stored(file, <<"numverify", n>>).data # ErrorMarker("NUMVERIFY_KEY not set")

\* C19 witness: with the key set, call_numverify has returned a failure marker
\* cached exactly one TTL earlier, and sent nothing.
C19_Witness ==
    /\ NumverifyReturned /\ CachedFailure /\ numverifyKey
    /\ loc.checkedAt - loc.seenNumv.ts = CACHE_TTL
    /\ loc.numv = loc.seenNumv.data /\ loc.http = {}

\* ------------------------------------------ claims on the cache under threads
\* C20: once a cache_set on a key has returned, the key has a record in the
\* file, holding a value given to a cache_set on that key, for as long as the
\* record is not stale, whatever the other threads' calls on other keys do
\* (observed when no call is in progress).
C20_NoLostWrite ==
    Quiescent =>
        \A k \in CacheKeys :
            (lastSet[k] # NoneV /\ ~Expired(lastSet[k], now)) =>
                /\ Stored(file, k) # NoneV
                /\ Stored(file, k).data \in Given(k)

====
